---------------------------- MODULE Spec2Model ----------------------------
(***************************************************************************)
(* Model of the degas firmware tooling: the per-region manifest file and   *)
(* the scripts that read and write it (Firmware Discovery, Manual Manifest *)
(* Editor, MD5 Updater, Version Selector), the release publication that    *)
(* follows a selection, and the Index Publisher's pure functions.          *)
(*                                                                         *)
(* Strings are sequences: a date is a sequence of characters (compared as  *)
(* Python compares strings), a version or a tag is a sequence of tokens,   *)
(* a URL is the sequence of its '/'-separated segments.                    *)
(***************************************************************************)
EXTENDS Integers, Sequences, FiniteSets, TLC

(* ------------------------------ bounds --------------------------------- *)

\* packages the vendor API returns for the region in one Discovery run
MaxPackages == 1
\* URLs the operator types at the Manual Editor's custom-URL prompt
MaxCustomUrls == 1
\* release entries the release listing returns to the Index Publisher
MaxReleases == 2
\* pieces (markers, headings, line feeds, text) of the host document
MaxDocLen == 4
\* URLs of a record in the mirror test
MaxMirrors == 3

(* ------------------------------ strings -------------------------------- *)

\* the line feed, as one character
LF == "LF"

\* code point of a character
Ord(c) ==
    CASE c = LF -> 10
      [] c = "-" -> 45
      [] c = "0" -> 48
      [] c = "1" -> 49
      [] c = "2" -> 50
      [] c = "5" -> 53
      [] c = "r" -> 114
      [] c = "t" -> 116
      [] c = "u" -> 117
      [] c = "v" -> 118
      [] c = "w" -> 119

Min(a, b) == IF a <= b THEN a ELSE b

\* Python's str < str: lexicographic by code point, a proper prefix is smaller
StrLess(a, b) ==
    \E k \in 1..(Min(Len(a), Len(b)) + 1) :
        /\ \A i \in 1..(k - 1) : a[i] = b[i]
        /\ \/ k > Len(a) /\ k <= Len(b)
           \/ k <= Len(a) /\ k <= Len(b) /\ Ord(a[k]) < Ord(b[k])

StrLeq(a, b) == a = b \/ StrLess(a, b)

\* str.replace('-', '')
RECURSIVE RemoveHyphens(_)
RemoveHyphens(s) ==
    IF s = <<>> THEN <<>>
    ELSE (IF Head(s) = "-" THEN <<>> ELSE <<Head(s)>>) \o RemoveHyphens(Tail(s))

\* s[a:b] of Python, 0-based and clipped to the string
Slice(s, a, b) == SubSeq(s, a + 1, Min(b, Len(s)))

(* ------------------------------ domains -------------------------------- *)

REGIONS == {"global", "eea", "ru", "id", "tw", "tr"}
EDITOR_REGIONS == REGIONS \cup {"global_dc"}
DEVICE_CODENAME == "degas"

\* the region whose manifest file is followed
Region == "eea"

VersionA == <<"OS2.", "0.206.0.VNEEUXM">>
VersionB == <<"V", "816.0.5.0.UNEEUXM">>
Versions == {VersionA, VersionB}

\* YYYYMMDD as it stands in a fastboot filename
Day10 == <<"2", "0", "2", "5", "1", "1", "1", "0">>
Day20 == <<"2", "0", "2", "5", "1", "1", "2", "0">>
Days == {Day10, Day20}

Date10 == <<"2", "0", "2", "5", "-", "1", "1", "-", "1", "0">>
Date20 == <<"2", "0", "2", "5", "-", "1", "1", "-", "2", "0">>
\* what the operator can type at the Date prompt
TypedDates == {Date10, Date20}

Androids == {"15.0"}
TypedHyperos == {"2.0"}
Md5s == {"5afdce8b44"}

CustomUrl == <<"https:", "", "mirror.example.org", "degas.tgz">>
AnswersYN == {"y", ""}

(* --------------------------- manifest records -------------------------- *)

VERSION_TEMPLATE ==
    [version |-> <<>>, date |-> <<>>, hyperos_version |-> "",
     android_version |-> "", md5 |-> "", urls |-> <<>>]

\* a manifest file that does not exist
Absent == [exists |-> FALSE, region |-> "", versions |-> <<>>]

TEMPLATE(region) == [exists |-> TRUE, region |-> region, versions |-> <<>>]

VersionsOf(m) == [i \in 1..Len(m.versions) |-> m.versions[i].version]

Range(s) == {s[i] : i \in 1..Len(s)}

SortDateDesc_keeps_order(s) ==
    s

\* list.sort(key=date, reverse=True): stable, equal dates keep their order
RECURSIVE SortDateDesc(_)
InsertDesc(sorted, x) ==
    LET before == {i \in 1..Len(sorted) : StrLess(sorted[i].date, x.date)}
        k == IF before = {} THEN Len(sorted) + 1
             ELSE CHOOSE i \in before : \A j \in before : i <= j
    IN  SubSeq(sorted, 1, k - 1) \o <<x>> \o SubSeq(sorted, k, Len(sorted))

SortDateDesc(s) ==
    IF s = <<>> THEN <<>>
    ELSE InsertDesc(SortDateDesc(SubSeq(s, 1, Len(s) - 1)), s[Len(s)])

\* list.sort(key=date): stable, ascending
RECURSIVE SortDateAsc(_)
InsertAsc(sorted, x) ==
    LET before == {i \in 1..Len(sorted) : StrLess(x.date, sorted[i].date)}
        k == IF before = {} THEN Len(sorted) + 1
             ELSE CHOOSE i \in before : \A j \in before : i <= j
    IN  SubSeq(sorted, 1, k - 1) \o <<x>> \o SubSeq(sorted, k, Len(sorted))

SortDateAsc_newest_first(s) ==
    SortDateDesc(s)

SortDateAsc(s) ==
    IF s = <<>> THEN <<>>
    ELSE InsertAsc(SortDateAsc(SubSeq(s, 1, Len(s) - 1)), s[Len(s)])


(* ------------------------------ filenames ------------------------------ *)

\* a fastboot filename, held by the groups of FASTBOOT_PATTERN; the date is the
\* compound token YYYYMMDD.0000.00 split at its dots
FastbootFilename(region_suffix, version, day, android, region_code, md5_part) ==
    [matches |-> TRUE, codename |-> DEVICE_CODENAME, region |-> region_suffix,
     version |-> version, date |-> <<day, "0000", "00">>, android |-> android,
     region_code |-> region_code, md5_part |-> md5_part]

\* a package file name the filename grammar does not match
BadFilename ==
    [matches |-> FALSE, codename |-> "", region |-> <<>>, version |-> <<>>,
     date |-> <<>>, android |-> "", region_code |-> "", md5_part |-> ""]

\* the words a name is made of, split at its underscores
WordsOf(name) ==
    IF name = "global_dc" THEN <<"global", "dc">> ELSE <<name>>

\* FASTBOOT_PATTERN.search(filename) and the groups returned. matches says that
\* what follows the run of words has the form
\* _images_<version>_<date>_<android>_<region_code>_<md5_part>.tgz. Of the run of
\* words before _images_, (?P<codename>\w+)_(?P<region>\w+)(?:_global)? takes
\* this: \w matches the underscore, so the greedy codename takes every word but
\* one, region takes the word left, and the optional _global matches nothing
parse_fastboot_filename(filename) ==
    LET words == <<filename.codename>> \o filename.region
        n == Len(words)
    IN  IF filename.matches /\ n >= 2
        THEN <<[codename |-> SubSeq(words, 1, n - 1),
                region |-> SubSeq(words, n, n),
                version |-> filename.version, android |-> filename.android,
                date |-> filename.date, md5_part |-> filename.md5_part]>>
        ELSE <<>>

auto_generate_filename(version, region, date_str, android_ver) ==
    LET region_suffix == IF region # "global" THEN WordsOf(region) \o <<"global">>
                         ELSE <<"global">>
        date_compact == <<RemoveHyphens(date_str), "0000", "00">>
    IN  [matches |-> TRUE, codename |-> DEVICE_CODENAME, region |-> region_suffix,
         version |-> version, date |-> date_compact, android |-> android_ver,
         region_code |-> region, md5_part |-> "xxxxxxxxxxxx"]

generate_mirror_urls(version, filename) ==
    << <<"https:", "", "bn.d.miui.com", version, filename>>,
       <<"https:", "", "bigota.d.miui.com", version, filename>>,
       <<"https:", "", "hugeota.d.miui.com", version, filename>>,
       <<"https:", "", "ultimateota.d.miui.com", version, filename>> >>

(* --------------------------- Firmware Discovery ------------------------ *)

update_manifest_always_appends(m, region, version_info) ==
    LET loaded == IF m.exists THEN m ELSE TEMPLATE(region)
    IN  [ret |-> TRUE,
         manifest |-> [loaded EXCEPT
                         !.versions = SortDateDesc(Append(@, version_info))]]

\* update_manifest: the value returned and the file as it is afterwards
update_manifest(m, region, version_info) ==
    LET loaded == IF m.exists THEN m ELSE TEMPLATE(region)
    IN  IF version_info.version \in Range(VersionsOf(loaded))
        THEN [ret |-> FALSE, manifest |-> m]
        ELSE [ret |-> TRUE,
              manifest |-> [loaded EXCEPT
                              !.versions = SortDateDesc(Append(@, version_info))]]

hyperos_label(version) ==
    IF version # <<>> /\ version[1] = "OS1." THEN "1.0"
    ELSE IF version # <<>> /\ version[1] = "OS2." THEN "2.0"
    ELSE IF version # <<>> /\ version[1] = "V" THEN "MIUI"
    ELSE "Unknown"

\* 20251117.0000.00 -> 2025-11-17
formatted_date(date) ==
    LET date_str == date[1]
    IN  Slice(date_str, 0, 4) \o <<"-">> \o Slice(date_str, 4, 6)
            \o <<"-">> \o Slice(date_str, 6, 8)

discovered_version_info(info, filename, url) ==
    [version |-> info.version,
     date |-> formatted_date(info.date),
     hyperos_version |-> hyperos_label(info.version),
     android_version |-> info.android,
     md5 |-> "",
     urls |-> << <<"https:", "", "bn.d.miui.com", info.version, filename>>,
                 <<"https:", "", "bigota.d.miui.com", info.version, filename>>,
                 <<"https:", "", "hugeota.d.miui.com", info.version, filename>>,
                 url >>]

\* the loop of main over the packages, from the first one
RECURSIVE ProcessPackages(_, _, _)
ProcessPackages(m, packages, regions_to_check) ==
    IF packages = <<>> THEN [manifest |-> m, added |-> 0, skipped |-> 0]
    ELSE
      LET package == Head(packages)
          parsed == parse_fastboot_filename(package.filename)
      IN  IF package.region \notin regions_to_check \/ parsed = <<>>
          THEN ProcessPackages(m, Tail(packages), regions_to_check)
          ELSE
            LET version_info == discovered_version_info(
                                    parsed[1], package.filename, package.url)
                u == update_manifest(m, package.region, version_info)
                rest == ProcessPackages(u.manifest, Tail(packages), regions_to_check)
            IN  [manifest |-> rest.manifest,
                 added |-> rest.added + (IF u.ret THEN 1 ELSE 0),
                 skipped |-> rest.skipped + (IF u.ret THEN 0 ELSE 1)]

PackageOf(filename) ==
    [region |-> Region,
     url |-> <<"https:", "",
               "bkt-sgp-miui-ota-update-alisgp.oss-ap-southeast-1.aliyuncs.com",
               filename>>,
     filename |-> filename]

\* what get_all_fastboot_packages can return for the region
Packages ==
    {PackageOf(FastbootFilename(<<Region, "global">>, v, d, a, Region, "5afdce8b44")) :
        v \in Versions, d \in Days, a \in Androids}
    \cup {PackageOf(BadFilename)}

PackageLists == UNION {[1..n -> Packages] : n \in 0..MaxPackages}

(* ------------------------------ MD5 Updater ---------------------------- *)

\* index of the first record of the list with this version, 0 when there is none
FirstIndexOf(versions, version) ==
    LET hits == {i \in 1..Len(versions) : versions[i].version = version}
    IN  IF hits = {} THEN 0 ELSE CHOOSE i \in hits : \A j \in hits : i <= j

md5_main_ignores_missing(m, region, version, md5) ==
    IF region = "" \/ version = <<>> \/ md5 = "" \/ ~m.exists
    THEN [exit |-> 1, wrote |-> FALSE, manifest |-> m]
    ELSE LET k == FirstIndexOf(m.versions, version)
         IN  [exit |-> 0, wrote |-> TRUE,
              manifest |-> IF k = 0 THEN m ELSE [m EXCEPT !.versions[k].md5 = md5]]

md5_main_sets_every_record(m, region, version, md5) ==
    IF region = "" \/ version = <<>> \/ md5 = "" \/ ~m.exists
       \/ FirstIndexOf(m.versions, version) = 0
    THEN [exit |-> 1, wrote |-> FALSE, manifest |-> m]
    ELSE [exit |-> 0, wrote |-> TRUE,
          manifest |-> [m EXCEPT !.versions =
                          [i \in 1..Len(@) |-> [@[i] EXCEPT !.md5 = md5]]]]

\* update_manifest_md5.py main: exit status, whether the file was written, the file
md5_main(m, region, version, md5) ==
    IF region = "" \/ version = <<>> \/ md5 = ""
    THEN [exit |-> 1, wrote |-> FALSE, manifest |-> m]
    ELSE IF ~m.exists
    THEN [exit |-> 1, wrote |-> FALSE, manifest |-> m]
    ELSE LET k == FirstIndexOf(m.versions, version)
         IN  IF k = 0
             THEN [exit |-> 1, wrote |-> FALSE, manifest |-> m]
             ELSE [exit |-> 0, wrote |-> TRUE,
                   manifest |-> [m EXCEPT !.versions[k].md5 = md5]]

(* ----------------------------- Version Selector ------------------------ *)

\* f"v{version}-{region}"
TagOf(version, region) == <<"v">> \o version \o <<"-", region>>

\* the outcome of one curl run: its output parses as a number (bytes/s), or not
ProbeResults ==
    {[ok |-> FALSE, speed |-> 0]} \cup {[ok |-> TRUE, speed |-> s] : s \in {0, 1}}

existing_tags_forgotten(listing) == {}

\* what gh release list gives: the tags, or a failure (treated as no tags)
existing_tags_of(listing) == IF listing.ok THEN listing.tags ELSE {}

unprocessed_with_released(m, region, existing_tags) == m.versions

unprocessed_of(m, region, existing_tags) ==
    SelectSeq(m.versions, LAMBDA v : TagOf(v.version, region) \notin existing_tags)

\* unprocessed.sort(key=date); unprocessed[0]
next_version_of(unprocessed) == SortDateAsc(unprocessed)[1]

SortSpeedDesc_keeps_order(s) ==
    s

\* list.sort(key=speed, reverse=True) of mirror_speeds: stable
RECURSIVE SortSpeedDesc(_)
InsertSpeedDesc(sorted, x) ==
    LET before == {i \in 1..Len(sorted) : sorted[i].speed < x.speed}
        k == IF before = {} THEN Len(sorted) + 1
             ELSE CHOOSE i \in before : \A j \in before : i <= j
    IN  SubSeq(sorted, 1, k - 1) \o <<x>> \o SubSeq(sorted, k, Len(sorted))

SortSpeedDesc(s) ==
    IF s = <<>> THEN <<>>
    ELSE InsertSpeedDesc(SortSpeedDesc(SubSeq(s, 1, Len(s) - 1)), s[Len(s)])

\* the score of one probe (lines 83-90): the throughput, 0 when the output of
\* curl is not a number
score(url, result) ==
    [url |-> url, speed |-> IF result.ok THEN result.speed ELSE 0, name |-> url[3]]

\* the mirror test: the URL kept, the number of probes made, mirror_speeds as the
\* loop leaves it (in the order of the probes), whether url.split('/')[2] raised
select_url(urls, results) ==
    IF Len(urls) <= 1
    THEN [url |-> urls[1], probes |-> 0, mirror_speeds |-> <<>>, raised |-> FALSE]
    ELSE
      LET short == {i \in 1..Len(urls) : Len(urls[i]) < 3}
      IN  IF short # {}
          THEN LET k == CHOOSE i \in short : \A j \in short : i <= j
               IN  [url |-> <<>>, raised |-> TRUE, probes |-> k - 1,
                    mirror_speeds |-> [i \in 1..(k - 1) |-> score(urls[i], results[i])]]
          ELSE
            LET mirror_speeds == [i \in 1..Len(urls) |-> score(urls[i], results[i])]
                sorted == SortSpeedDesc(mirror_speeds)
            IN  [url |-> IF sorted[1].speed > 0 THEN sorted[1].url ELSE urls[1],
                 probes |-> Len(urls), mirror_speeds |-> mirror_speeds,
                 raised |-> FALSE]

\* find_next_version.py main up to the choice of next_version (lines 11-67): the
\* record of the run; open tells that the mirror test is still to come
choose_next(m, region, listing) ==
    LET run == [tool |-> "selector", region |-> region, version |-> <<>>,
                md5 |-> "", listed |-> listing.ok,
                exit |-> 0, raised |-> FALSE, wrote |-> FALSE, added |-> 0,
                skipped |-> 0, chosen |-> <<>>, url |-> <<>>, probes |-> 0,
                output |-> FALSE, partial |-> FALSE]
    IN
    IF region = "" THEN [open |-> FALSE, run |-> [run EXCEPT !.exit = 1]]
    ELSE IF ~m.exists THEN [open |-> FALSE, run |-> run]
    ELSE IF m.versions = <<>> THEN [open |-> FALSE, run |-> run]
    ELSE
      LET existing_tags == existing_tags_of(listing)
          unprocessed == unprocessed_of(m, region, existing_tags)
      IN  IF unprocessed = <<>>
          THEN [open |-> FALSE, run |-> run]
          ELSE [open |-> TRUE,
                run |-> [run EXCEPT !.chosen = <<next_version_of(unprocessed)>>]]

\* the rest of main (lines 69-117): the mirror test and the output
finish_run(pre, results) ==
    IF ~pre.open THEN pre.run
    ELSE
      LET urls == pre.run.chosen[1].urls
      IN  IF urls = <<>>
          THEN [pre.run EXCEPT !.exit = 1, !.raised = TRUE]
          ELSE
            LET sel == select_url(urls, results)
            IN  IF sel.raised
                THEN [pre.run EXCEPT !.probes = sel.probes,
                                     !.exit = 1, !.raised = TRUE]
                ELSE [pre.run EXCEPT !.probes = sel.probes,
                                     !.url = sel.url,
                                     !.output = TRUE]

\* how many mirrors the run tests
ProbesNeeded(pre) ==
    IF pre.open /\ Len(pre.run.chosen[1].urls) > 1
    THEN Len(pre.run.chosen[1].urls) ELSE 0

(* ----------------------------- Index Publisher ------------------------ *)

parse_tag_at_first_hyphen(tag) ==
    LET e == IF tag # <<>> /\ tag[Len(tag)] = LF THEN Len(tag) - 1 ELSE Len(tag)
        hyphens == {h \in 3..(e - 1) : tag[h] = "-"}
    IN  IF /\ e >= 4
           /\ tag[1] = "v"
           /\ \A i \in 2..e : tag[i] # LF
           /\ hyphens # {}
        THEN LET h == CHOOSE x \in hyphens : \A y \in hyphens : x <= y
             IN  <<SubSeq(tag, 2, h - 1), SubSeq(tag, h + 1, e)>>
        ELSE <<>>

\* parse_tag: re.match(r'^v(.+)-(.+)$', tag). '.' takes no line feed, '$' also
\* matches before a line feed that ends the tag, the first group is greedy.
\* <<version, region>>, or <<>> for (None, None)
parse_tag(tag) ==
    LET e == IF tag # <<>> /\ tag[Len(tag)] = LF THEN Len(tag) - 1 ELSE Len(tag)
        hyphens == {h \in 3..(e - 1) : tag[h] = "-"}
    IN  IF /\ e >= 4
           /\ tag[1] = "v"
           /\ \A i \in 2..e : tag[i] # LF
           /\ hyphens # {}
        THEN LET h == CHOOSE x \in hyphens : \A y \in hyphens : y <= x
             IN  <<SubSeq(tag, 2, h - 1), SubSeq(tag, h + 1, e)>>
        ELSE <<>>

\* manifests.get(region, {}).get(version, {}), with the defaults of the .get calls
manifest_data(manifests, region, version) ==
    LET found == {d \in manifests : d.region = region /\ d.version = version}
    IN  IF found = {}
        THEN [hyperos_version |-> "", android_version |-> "", md5 |-> <<>>]
        ELSE LET d == CHOOSE x \in found : TRUE
             IN  [hyperos_version |-> d.hyperos_version,
                  android_version |-> d.android_version, md5 |-> d.md5]

is_duplicate_by_tag_only(tag, version_region_key, seen_tags, seen_version_region) ==
    tag \in seen_tags

\* the two skips of the loop (lines 77 and 82)
is_duplicate(tag, version_region_key, seen_tags, seen_version_region) ==
    tag \in seen_tags \/ version_region_key \in seen_version_region

\* the loop of generate_firmware_index over the releases: the entries appended to
\* by_region, in the order they are appended
RECURSIVE index_entries(_, _, _, _)
index_entries(releases, manifests, seen_tags, seen_version_region) ==
    IF releases = <<>> THEN <<>>
    ELSE
      LET release == Head(releases)
          tag == release.tagName
          parsed == parse_tag(tag)
      IN  IF parsed = <<>>
          THEN index_entries(Tail(releases), manifests, seen_tags, seen_version_region)
          ELSE
            LET version == parsed[1]
                region == parsed[2]
                version_region_key == version \o <<"-">> \o region
            IN  IF is_duplicate(tag, version_region_key, seen_tags,
                                seen_version_region)
                THEN index_entries(Tail(releases), manifests, seen_tags,
                                   seen_version_region)
                ELSE
                  LET data == manifest_data(manifests, region, version)
                  IN  <<[region |-> region, version |-> version, tag |-> tag,
                         url |-> <<"https://github.com/nicodotgit/degas-fw-dump/releases/tag/", tag>>,
                         date |-> release.createdAt[1], name |-> release.name,
                         hyperos |-> data.hyperos_version,
                         android |-> data.android_version, md5 |-> data.md5]>>
                      \o index_entries(Tail(releases), manifests,
                                       seen_tags \cup {tag},
                                       seen_version_region \cup {version_region_key})

\* list.sort(key=version, reverse=True): stable
RECURSIVE SortVersionDesc(_)
InsertVersionDesc(sorted, x) ==
    LET before == {i \in 1..Len(sorted) : StrLess(sorted[i].version, x.version)}
        k == IF before = {} THEN Len(sorted) + 1
             ELSE CHOOSE i \in before : \A j \in before : i <= j
    IN  SubSeq(sorted, 1, k - 1) \o <<x>> \o SubSeq(sorted, k, Len(sorted))

SortVersionDesc(s) ==
    IF s = <<>> THEN <<>>
    ELSE InsertVersionDesc(SortVersionDesc(SubSeq(s, 1, Len(s) - 1)), s[Len(s)])

\* sorted(by_region.keys())
RECURSIVE SortedRegions(_)
SortedRegions(regions) ==
    IF regions = {} THEN <<>>
    ELSE LET least == CHOOSE r \in regions : \A q \in regions : StrLeq(r, q)
         IN  <<least>> \o SortedRegions(regions \ {least})

\* the rows of the index as they are rendered: region after region, each region's
\* rows by version, newest-looking first
RECURSIVE rows_by_region(_, _)
rows_by_region(entries, regions) ==
    IF regions = <<>> THEN <<>>
    ELSE SortVersionDesc(SelectSeq(entries, LAMBDA x : x.region = Head(regions)))
            \o rows_by_region(entries, Tail(regions))

Upper(c) ==
    CASE c = "r" -> "R" [] c = "t" -> "T" [] c = "u" -> "U" [] c = "w" -> "W"
      [] OTHER -> c

\* region_names.get(region, region.upper())
region_name(region) ==
    CASE region = <<"r", "u">> -> <<"Russia">>
      [] region = <<"t", "w">> -> <<"Taiwan">>
      [] region = <<"t", "r">> -> <<"Turkey">>
      [] OTHER -> [i \in 1..Len(region) |-> Upper(region[i])]

\* one table row (line 142), cell by cell
render_row(v) ==
    [line |-> "row", version |-> v.version,
     hyperos |-> IF v.hyperos # "" THEN v.hyperos ELSE "-",
     android |-> IF v.android # "" THEN v.android ELSE "-",
     date |-> v.date,
     md5_short |-> IF v.md5 # <<>> /\ Len(v.md5) > 8
                   THEN Slice(v.md5, 0, 8) \o <<".", ".", ".">> ELSE <<"-">>,
     url |-> v.url]

RECURSIVE render_regions(_, _)
render_regions(entries, regions) ==
    IF regions = <<>> THEN <<>>
    ELSE
      LET versions == SortVersionDesc(
                          SelectSeq(entries, LAMBDA x : x.region = Head(regions)))
      IN  <<[line |-> "details", name |-> region_name(Head(regions)),
             count |-> Len(versions)]>>
          \o [i \in 1..Len(versions) |-> render_row(versions[i])]
          \o <<[line |-> "end details"]>>
          \o render_regions(entries, Tail(regions))

\* generate_firmware_index: the rows kept and the text, line by line
generate_firmware_index(releases, manifests) ==
    LET entries == index_entries(releases, manifests, {}, {})
        regions == SortedRegions({entries[i].region : i \in 1..Len(entries)})
    IN  [rows |-> rows_by_region(entries, regions),
         content |-> IF entries = <<>>
                     THEN <<[line |-> "Available Firmware"],
                            [line |-> "No firmware versions available yet."]>>
                     ELSE <<[line |-> "Available Firmware"]>>
                              \o render_regions(entries, regions)]

\* the pieces of the host document
MarkerStart == "<!-- FIRMWARE_INDEX_START -->"
MarkerEnd == "<!-- FIRMWARE_INDEX_END -->"
AboutHeading == "## About This Repository"
Text == "text"

Contains(doc, piece) == \E i \in 1..Len(doc) : doc[i] = piece

\* whether the pieces of part stand in doc from position i on
OccursAt(doc, part, i) ==
    /\ i + Len(part) - 1 <= Len(doc)
    /\ \A k \in 1..Len(part) : doc[i + k - 1] = part[k]

\* re.sub(start.*?end, replacement, content, flags=DOTALL) from position i on:
\* every start marker that an end marker follows is replaced up to the nearest one
RECURSIVE ReSub(_, _, _)
ReSub(content, replacement, i) ==
    IF i > Len(content) THEN <<>>
    ELSE
      LET ends == {j \in (i + 1)..Len(content) : content[j] = MarkerEnd}
      IN  IF content[i] = MarkerStart /\ ends # {}
          THEN replacement
                 \o ReSub(content, replacement,
                          (CHOOSE j \in ends : \A k \in ends : j <= k) + 1)
          ELSE <<content[i]>> \o ReSub(content, replacement, i + 1)

\* str.replace(old, new) from position i on
RECURSIVE StrReplace(_, _, _, _)
StrReplace(content, old, new, i) ==
    IF i > Len(content) THEN <<>>
    ELSE IF OccursAt(content, old, i)
    THEN new \o StrReplace(content, old, new, i + Len(old))
    ELSE <<content[i]>> \o StrReplace(content, old, new, i + 1)

\* update_readme: README.md as it is written back
update_readme(content, index_content) ==
    IF Contains(content, MarkerStart) /\ Contains(content, MarkerEnd)
    THEN ReSub(content, <<MarkerStart, LF>> \o index_content \o <<MarkerEnd>>, 1)
    ELSE
      LET about_section == <<LF, AboutHeading>>
      IN  IF \E i \in 1..Len(content) : OccursAt(content, about_section, i)
          THEN StrReplace(content, about_section,
                          <<LF, MarkerStart, LF>> \o index_content
                              \o <<MarkerEnd, LF>> \o about_section, 1)
          ELSE content \o <<LF, LF, MarkerStart, LF>> \o index_content
                   \o <<MarkerEnd, LF>>

(* ------------------------------- state --------------------------------- *)

VARIABLES
    manifest,    \* firmware_updates/<Region>.json
    published,   \* tags of the releases that exist
    pubLog,      \* the releases created, in order, each with the versions known then
    ed,          \* the Manual Manifest Editor's session
    ix,          \* the Index Publisher: its inputs, and what it made of them
    fx,          \* a filename made from four fields, and what parsing it gives
    ms,          \* a mirror test: the URLs, the outcomes of curl, what came of it
    last         \* the invocation that ended last (none while the editor runs):
                 \* its environment (region, version, md5), whether the release
                 \* listing answered (listed), its exit status and effects; output
                 \* stands for the VERSION/DOWNLOAD_URL/DATA_FOUND lines written;
                 \* for the editor, partial says that the session ended with a
                 \* record entered part-way

vars == <<manifest, published, pubLog, ed, last, ix, fx, ms>>

EdIdle == [pc |-> "idle", manifest |-> Absent, version_info |-> VERSION_TEMPLATE,
           urls |-> <<>>, rejected |-> FALSE]

NoLast ==
    [tool |-> "none", region |-> "", version |-> <<>>, md5 |-> "", listed |-> FALSE,
     exit |-> 0, raised |-> FALSE, wrote |-> FALSE, added |-> 0, skipped |-> 0,
     chosen |-> <<>>, url |-> <<>>, probes |-> 0, output |-> FALSE,
     partial |-> FALSE]

\* the Index Publisher not running
IxOff ==
    [pc |-> "off", releases |-> <<>>, manifests |-> {}, rows |-> <<>>,
     content |-> <<>>, readme |-> <<>>, index_content |-> <<>>, written |-> <<>>,
     gh |-> <<>>, wrote |-> FALSE]

\* no filename made
FxOff ==
    [pc |-> "off", version |-> <<>>, region |-> "", date |-> <<>>, android |-> "",
     filename |-> <<>>, parsed |-> <<>>]

\* no mirror test made
MsOff ==
    [pc |-> "off", urls |-> <<>>, results |-> <<>>, url |-> <<>>,
     mirror_speeds |-> <<>>, raised |-> FALSE]

\* no manifest file, no release
InitStore ==
    /\ manifest = Absent
    /\ published = {}
    /\ pubLog = <<>>
    /\ ed = EdIdle
    /\ last = NoLast

Init == InitStore /\ ix = IxOff /\ fx = FxOff /\ ms = MsOff

\* check_firmware_mi_community.py main
Discovery ==
    /\ ed.pc = "idle"
    /\ \E packages \in PackageLists, regions_to_check \in {REGIONS, {"ru"}} :
         LET r == ProcessPackages(manifest, packages, regions_to_check)
         IN  /\ manifest' = r.manifest
             /\ last' = [NoLast EXCEPT !.tool = "discovery", !.wrote = r.added > 0,
                                       !.added = r.added, !.skipped = r.skipped]
    /\ UNCHANGED <<ix, fx, ms, published, pubLog, ed>>

(* ------------------------- Manual Manifest Editor ---------------------- *)

\* create_manifest called with a region that is not in REGIONS
EditorInvalidRegion ==
    /\ ed.pc = "idle"
    /\ \E region \in {"eu"} :
         /\ region \notin EDITOR_REGIONS
         /\ last' = [NoLast EXCEPT !.tool = "editor"]
    /\ UNCHANGED <<ix, fx, ms, manifest, published, pubLog, ed>>

\* create_manifest up to the first prompt: load the file or start from TEMPLATE
EditorStart ==
    /\ ed.pc = "idle"
    /\ Region \in EDITOR_REGIONS
    /\ ed' = [EdIdle EXCEPT !.pc = "version",
                            !.manifest = IF manifest.exists THEN manifest
                                         ELSE TEMPLATE(Region)]
    /\ last' = NoLast
    /\ UNCHANGED <<ix, fx, ms, manifest, published, pubLog>>

\* the sort and the save that end create_manifest
EditorSave ==
    /\ manifest' = [ed.manifest EXCEPT !.versions = SortDateDesc(@)]
    /\ ed' = EdIdle
    /\ last' = [NoLast EXCEPT
                   !.tool = "editor", !.wrote = TRUE,
                   !.partial = ed.pc \in {"date", "android", "hyperos", "custom", "url"}]
    /\ UNCHANGED <<ix, fx, ms, published, pubLog>>

EditorAppend_drops_record(urls) ==
    [ed EXCEPT !.pc = "more", !.urls = <<>>, !.version_info = VERSION_TEMPLATE]

EditorAppend(urls) ==
    [ed EXCEPT !.pc = "more",
               !.urls = <<>>,
               !.version_info = VERSION_TEMPLATE,
               !.manifest.versions =
                   Append(@, [ed.version_info EXCEPT !.urls = urls, !.md5 = ""])]

version_exists_never(m, version) == FALSE

\* version_info['version'] in existing (lines 110-111)
version_exists(m, version) == version \in Range(VersionsOf(m))

\* the "Version: " prompt
EditorVersion ==
    /\ ed.pc = "version"
    /\ \E version \in Versions \cup {<<>>} :
         IF version = <<>> THEN EditorSave
         ELSE IF version_exists(ed.manifest, version)
         THEN /\ ed' = [ed EXCEPT !.rejected = TRUE]
              /\ UNCHANGED <<ix, fx, ms, manifest, published, pubLog, last>>
         ELSE /\ ed' = [ed EXCEPT !.pc = "date", !.rejected = FALSE,
                                  !.version_info.version = version]
              /\ UNCHANGED <<ix, fx, ms, manifest, published, pubLog, last>>

EditorDate ==
    /\ ed.pc = "date"
    /\ \E date \in TypedDates :
         ed' = [ed EXCEPT !.pc = "android", !.version_info.date = date]
    /\ UNCHANGED <<ix, fx, ms, manifest, published, pubLog, last>>

EditorAndroid ==
    /\ ed.pc = "android"
    /\ \E android \in Androids :
         ed' = [ed EXCEPT !.pc = "hyperos", !.version_info.android_version = android]
    /\ UNCHANGED <<ix, fx, ms, manifest, published, pubLog, last>>

EditorHyperos ==
    /\ ed.pc = "hyperos"
    /\ \E hyperos \in TypedHyperos :
         ed' = [ed EXCEPT !.pc = "custom", !.version_info.hyperos_version = hyperos]
    /\ UNCHANGED <<ix, fx, ms, manifest, published, pubLog, last>>

\* the "Use custom filename/URLs?" prompt
EditorCustom ==
    /\ ed.pc = "custom"
    /\ \E use_custom \in AnswersYN :
         IF use_custom = "y"
         THEN ed' = [ed EXCEPT !.pc = "url", !.urls = <<>>]
         ELSE ed' = EditorAppend(generate_mirror_urls(
                        ed.version_info.version,
                        auto_generate_filename(ed.version_info.version, Region,
                                               ed.version_info.date,
                                               ed.version_info.android_version)))
    /\ UNCHANGED <<ix, fx, ms, manifest, published, pubLog, last>>

\* the "  URL: " prompt: an empty line ends the list
EditorUrl ==
    /\ ed.pc = "url"
    /\ \E url \in {CustomUrl, <<>>} :
         IF url = <<>> THEN ed' = EditorAppend(ed.urls)
         ELSE /\ Len(ed.urls) < MaxCustomUrls
              /\ ed' = [ed EXCEPT !.urls = Append(@, url)]
    /\ UNCHANGED <<ix, fx, ms, manifest, published, pubLog, last>>

\* the "Add another version?" prompt
EditorMore ==
    /\ ed.pc = "more"
    /\ \E more \in AnswersYN :
         IF more = "y"
         THEN /\ ed' = [ed EXCEPT !.pc = "version"]
              /\ UNCHANGED <<ix, fx, ms, manifest, published, pubLog, last>>
         ELSE EditorSave

\* Ctrl+C at any prompt
EditorInterrupt ==
    /\ ed.pc # "idle"
    /\ EditorSave

\* update_manifest_md5.py
Md5Updater ==
    /\ ed.pc = "idle"
    /\ \E region \in {Region, ""}, version \in Versions \cup {<<>>},
          md5 \in Md5s \cup {""} :
         LET r == md5_main(manifest, region, version, md5)
         IN  /\ manifest' = r.manifest
             /\ last' = [NoLast EXCEPT !.tool = "md5", !.region = region,
                                       !.version = version, !.md5 = md5,
                                       !.exit = r.exit, !.wrote = r.wrote]
    /\ UNCHANGED <<ix, fx, ms, published, pubLog, ed>>

\* find_next_version.py
Selector ==
    /\ ed.pc = "idle"
    /\ \E region \in {Region, ""}, ok \in BOOLEAN :
         LET pre == choose_next(manifest, region, [ok |-> ok, tags |-> published])
         IN  \E results \in [1..ProbesNeeded(pre) -> ProbeResults] :
                last' = finish_run(pre, results)
    /\ UNCHANGED <<ix, fx, ms, manifest, published, pubLog, ed>>

\* the release of the version the Selector handed over
Publish ==
    /\ last.tool = "selector" /\ last.exit = 0 /\ last.output
    /\ last.chosen # <<>>
    /\ LET tag == TagOf(last.chosen[1].version, Region)
       IN  /\ tag \notin published
           /\ published' = published \cup {tag}
           /\ pubLog' = Append(pubLog,
                               [version |-> last.chosen[1].version,
                                date |-> last.chosen[1].date,
                                known |-> Range(VersionsOf(manifest))])
    /\ last' = [NoLast EXCEPT !.tool = "publish"]
    /\ UNCHANGED <<ix, fx, ms, manifest, ed>>

Next ==
    \/ Discovery
    \/ EditorInvalidRegion
    \/ EditorStart
    \/ EditorVersion
    \/ EditorDate
    \/ EditorAndroid
    \/ EditorHyperos
    \/ EditorCustom
    \/ EditorUrl
    \/ EditorMore
    \/ EditorInterrupt
    \/ Md5Updater
    \/ Selector
    \/ Publish

Spec == Init /\ [][Next]_vars

\* The writers of the manifest alone. The Selector and the publication never
\* write the manifest: they change published, pubLog and last only.
EditorStep ==
    \/ EditorInvalidRegion
    \/ EditorStart
    \/ EditorVersion
    \/ EditorDate
    \/ EditorAndroid
    \/ EditorHyperos
    \/ EditorCustom
    \/ EditorUrl
    \/ EditorMore
    \/ EditorInterrupt

NextStore ==
    \/ Discovery
    \/ EditorStep
    \/ Md5Updater

SpecStore == Init /\ [][NextStore]_vars

\* Discovery and the editor feeding the Selector and the publication. The MD5
\* Updater is left out: it sets md5 only, which the selection never reads.
NextRelease ==
    \/ Discovery
    \/ EditorStep
    \/ Selector
    \/ Publish

\* the editor's sessions, on the manifests Discovery leaves; the operator ends
\* every session (here: can always interrupt it, and does so at some time)
NextEditor == Discovery \/ EditorInvalidRegion \/ EditorStep

SpecEditor == Init /\ [][NextEditor]_vars /\ WF_vars(EditorInterrupt)

SpecRelease == Init /\ [][NextRelease]_vars


(* ------------------ the Index Publisher's functions, applied ----------- *)

Tag_v1_ru == <<"v", "1", "-", "r", "u">>
Tag_v1_ru_LF == <<"v", "1", "-", "r", "u", LF>>
Tag_v2_ru == <<"v", "2", "-", "r", "u">>
Tag_v1_tw == <<"v", "1", "-", "t", "w">>
Tag_v1_2_ru == <<"v", "1", "-", "2", "-", "r", "u">>
Tag_v1 == <<"v", "1">>
Tag_1_ru == <<"1", "-", "r", "u">>
Tag_v_ru == <<"v", "-", "r", "u">>
Tag_v1_ == <<"v", "1", "-">>

Tags == {Tag_v1_ru, Tag_v1_ru_LF, Tag_v2_ru, Tag_v1_tw, Tag_v1_2_ru,
         Tag_v1, Tag_1_ru, Tag_v_ru, Tag_v1_}

\* the entries gh release list can return
ReleaseEntries ==
    {[tagName |-> t, name |-> n, createdAt |-> <<"2025-12-01", "T10:00:00Z">>] :
        t \in Tags, n \in {"first", "second"}}

ReleaseLists == UNION {[1..n -> ReleaseEntries] : n \in 0..MaxReleases}

\* what load_manifests can find: nothing, or the record of version 1 of region ru
ManifestDataSets ==
    {{}, {[region |-> <<"r", "u">>, version |-> <<"1">>, hyperos_version |-> "2.0",
           android_version |-> "15.0",
           md5 |-> <<"5", "a", "f", "d", "c", "e", "8", "b", "4", "4">>]}}

InitIndex ==
    /\ InitStore /\ fx = FxOff /\ ms = MsOff
    /\ ix \in {[IxOff EXCEPT !.pc = "releases", !.releases = r, !.manifests = m] :
                 r \in ReleaseLists, m \in ManifestDataSets}

\* generate_firmware_index(releases)
GenerateIndex ==
    /\ ix.pc = "releases"
    /\ LET index == generate_firmware_index(ix.releases, ix.manifests)
       IN  ix' = [ix EXCEPT !.pc = "indexed", !.rows = index.rows,
                            !.content = index.content]
    /\ UNCHANGED <<manifest, published, pubLog, ed, last, fx, ms>>

SpecIndex == InitIndex /\ [][GenerateIndex]_vars

DocPieces == {MarkerStart, MarkerEnd, LF, AboutHeading, Text}

Docs == UNION {[1..n -> DocPieces] : n \in 0..MaxDocLen}

\* rendered blocks: the empty-state block, and a block with one region's table
IndexContents ==
    {<<"## Available Firmware", LF, "No firmware versions available yet.", LF>>,
     <<"## Available Firmware", LF, "<details>Russia</details>", LF>>}

InitReadme ==
    /\ InitStore /\ fx = FxOff /\ ms = MsOff
    /\ ix \in {[IxOff EXCEPT !.pc = "readme", !.readme = d, !.index_content = c] :
                 d \in Docs, c \in IndexContents}

\* update_readme(index_content)
UpdateReadme ==
    /\ ix.pc = "readme"
    /\ ix' = [ix EXCEPT !.pc = "written",
                        !.written = update_readme(ix.readme, ix.index_content)]
    /\ UNCHANGED <<manifest, published, pubLog, ed, last, fx, ms>>

SpecReadme == InitReadme /\ [][UpdateReadme]_vars

(* ----------------------- the Index Publisher's main -------------------- *)

\* what gh release list left behind: its return code, whether its output is
\* blank, the releases its output lists, and its error text
GhResults ==
    {[returncode |-> 0, blank |-> FALSE, releases |-> r, stderr |-> ""] :
        r \in ReleaseLists}
    \cup {[returncode |-> 0, blank |-> TRUE, releases |-> <<>>, stderr |-> ""]}
    \cup {[returncode |-> 1, blank |-> TRUE, releases |-> <<>>, stderr |-> e] :
            e \in {"no releases found", "HTTP 404: Not Found",
                   "HTTP 401: Bad credentials"}}

\* 'no releases found' in stderr.lower() or 'not found' in stderr.lower()
stderr_says_none(stderr) ==
    CASE stderr = "no releases found" -> TRUE
      [] stderr = "HTTP 404: Not Found" -> TRUE
      [] OTHER -> FALSE

\* get_all_releases: the list, or RuntimeError raised
get_all_releases(result) ==
    IF result.returncode # 0
    THEN [raised |-> ~stderr_says_none(result.stderr), releases |-> <<>>]
    ELSE [raised |-> FALSE,
          releases |-> IF result.blank THEN <<>> ELSE result.releases]

index_main_always_writes(result, manifests, content) ==
    LET got == get_all_releases(result)
    IN  IF got.raised
        THEN [raised |-> TRUE, wrote |-> FALSE, written |-> <<>>]
        ELSE [raised |-> FALSE, wrote |-> TRUE,
              written |-> update_readme(content,
                             generate_firmware_index(got.releases, manifests).content)]

\* main of update_firmware_index.py on the README text content
index_main(result, manifests, content) ==
    LET got == get_all_releases(result)
    IN  IF got.raised
        THEN [raised |-> TRUE, wrote |-> FALSE, written |-> <<>>]
        ELSE IF Len(got.releases) = 0
        THEN [raised |-> FALSE, wrote |-> FALSE, written |-> <<>>]
        ELSE [raised |-> FALSE, wrote |-> TRUE,
              written |-> update_readme(content,
                             generate_firmware_index(got.releases, manifests).content)]

\* README.md before the run: empty, plain, or holding an index block
Readmes == {<<>>, <<Text, LF, AboutHeading>>, <<MarkerStart, Text, MarkerEnd, LF>>}

InitPublisher ==
    /\ InitStore /\ fx = FxOff /\ ms = MsOff
    /\ ix \in {[IxOff EXCEPT !.pc = "main", !.gh = <<g>>, !.manifests = m,
                             !.readme = d] :
                 g \in GhResults, m \in ManifestDataSets, d \in Readmes}

IndexPublisher ==
    /\ ix.pc = "main"
    /\ LET r == index_main(ix.gh[1], ix.manifests, ix.readme)
       IN  ix' = [ix EXCEPT !.pc = IF r.raised THEN "raised" ELSE "returned",
                            !.wrote = r.wrote, !.written = r.written]
    /\ UNCHANGED <<manifest, published, pubLog, ed, last, fx, ms>>

SpecPublisher == InitPublisher /\ [][IndexPublisher]_vars

(* ------------------------ filenames, made and parsed ------------------- *)

VersionC == <<"OS1.", "0.5.0.UNEMIXM">>
FilenameVersions == Versions \cup {VersionC}
FilenameAndroids == {"14.0", "15.0", "16.0"}

InitFilename ==
    /\ InitStore /\ ix = IxOff /\ ms = MsOff
    /\ fx \in {[FxOff EXCEPT !.pc = "fields", !.version = v, !.region = r,
                             !.date = d, !.android = a] :
                 v \in FilenameVersions, r \in EDITOR_REGIONS,
                 d \in TypedDates, a \in FilenameAndroids}

\* auto_generate_filename, then parse_fastboot_filename on what it returns
MakeAndParse ==
    /\ fx.pc = "fields"
    /\ LET filename == auto_generate_filename(fx.version, fx.region, fx.date,
                                              fx.android)
       IN  fx' = [fx EXCEPT !.pc = "parsed", !.filename = <<filename>>,
                            !.parsed = parse_fastboot_filename(filename)]
    /\ UNCHANGED <<manifest, published, pubLog, ed, last, ix, ms>>

SpecFilename == InitFilename /\ [][MakeAndParse]_vars

(* ------------------------------ the mirror test ------------------------ *)

\* the outcomes of one curl run in the mirror test, with two positive speeds
MirrorResults == ProbeResults \cup {[ok |-> TRUE, speed |-> 2]}

\* the URL lists of a record: the first mirrors of an auto-generated list
UrlLists ==
    LET mirrors == generate_mirror_urls(
                       VersionA, auto_generate_filename(VersionA, Region, Date10, "15.0"))
    IN  {SubSeq(mirrors, 1, n) : n \in 1..MaxMirrors}

InitMirror ==
    /\ InitStore /\ ix = IxOff /\ fx = FxOff
    /\ ms \in {[MsOff EXCEPT !.pc = "urls", !.urls = u, !.results = r] :
                 u \in UrlLists, r \in UNION {[1..n -> MirrorResults] : n \in 1..MaxMirrors}}
    /\ Len(ms.results) = IF Len(ms.urls) > 1 THEN Len(ms.urls) ELSE 1

\* lines 69-100 of find_next_version.py on the URLs of a record
MirrorTest ==
    /\ ms.pc = "urls"
    /\ LET sel == select_url(ms.urls, ms.results)
       IN  ms' = [ms EXCEPT !.pc = "selected", !.url = sel.url,
                            !.mirror_speeds = sel.mirror_speeds,
                            !.raised = sel.raised]
    /\ UNCHANGED <<manifest, published, pubLog, ed, last, ix, fx>>

SpecMirror == InitMirror /\ [][MirrorTest]_vars

(* ------------------- manifests written by hand, then the tools -------- *)

\* a record as an operator writes it into the JSON file
HandRecord(version, date) ==
    [VERSION_TEMPLATE EXCEPT !.version = version, !.date = date,
                             !.hyperos_version = "2.0", !.android_version = "15.0",
                             !.urls = <<CustomUrl>>]

\* firmware_updates/<Region>.json as found by a tool: lists in any order
HandWritten ==
    {[exists |-> TRUE, region |-> Region, versions |-> v] :
        v \in {<<HandRecord(VersionC, Date10), HandRecord(VersionA, Date20)>>,
               <<HandRecord(VersionA, Date20), HandRecord(VersionC, Date10)>>,
               <<HandRecord(VersionA, Date10), HandRecord(VersionB, Date20)>>}}

InitHandWritten ==
    /\ manifest \in HandWritten
    /\ published = {} /\ pubLog = <<>> /\ ed = EdIdle /\ last = NoLast
    /\ ix = IxOff /\ fx = FxOff /\ ms = MsOff

SpecHandWritten == InitHandWritten /\ [][NextStore]_vars

(* ------------------------------- claims -------------------------------- *)

RecordsOf(m) == Range(m.versions)

\* records Discovery can hand to update_manifest, and bare records of each version
CandidateInfos ==
    {discovered_version_info(parse_fastboot_filename(p.filename)[1],
                             p.filename, p.url) :
        p \in {q \in Packages : q.filename.matches}}
    \cup {[VERSION_TEMPLATE EXCEPT !.version = v] : v \in Versions}

\* C1: update_manifest is idempotent on the version key: a record whose version
\* is already in the manifest is refused (False) and the file stays as it was,
\* so adding a record twice gives what adding it once gives.
C1_AddIdempotent ==
    \A v \in CandidateInfos :
        LET once == update_manifest(manifest, Region, v)
            twice == update_manifest(once.manifest, Region, v)
        IN  /\ twice.ret = FALSE
            /\ twice.manifest = once.manifest
            /\ (manifest.exists /\ v.version \in Range(VersionsOf(manifest)))
                    => (once.ret = FALSE /\ once.manifest = manifest)

\* a Discovery run met a version that the manifest already held
C1_Witness ==
    /\ last.tool = "discovery" /\ last.skipped > 0 /\ last.added = 0
    /\ manifest.exists /\ Len(manifest.versions) > 0

\* C2: the version values of the persisted manifest are pairwise distinct after
\* any sequence of Discovery, Manual Editor and MD5 Updater runs.
C2_VersionsDistinct ==
    \A i, j \in 1..Len(manifest.versions) :
        manifest.versions[i].version = manifest.versions[j].version => i = j

\* two records, one written by Discovery and one by the editor, after an MD5 run
C2_Witness ==
    /\ Len(manifest.versions) = 2
    /\ last.tool = "md5" /\ last.wrote
    /\ \E r \in RecordsOf(manifest) : Len(r.urls) = 4 /\ r.urls[4][3] # "ultimateota.d.miui.com"
    /\ \E r \in RecordsOf(manifest) : r.urls = <<CustomUrl>>

\* the tags the Selector run that ended last was given by the release listing
SeenTags == IF last.listed THEN published ELSE {}

Unpublished(tags) == {r \in RecordsOf(manifest) : TagOf(r.version, Region) \notin tags}

SelectorRan == last.tool = "selector" /\ last.region = Region

\* C3: when some record's tag is not in the given set of published tags, the
\* Selector chooses a record of the manifest that is not published and whose date
\* is the least, by string comparison, of all unpublished records.
C3_ChoosesOldestUnpublished ==
    (SelectorRan /\ Unpublished(SeenTags) # {}) =>
        /\ last.chosen # <<>>
        /\ last.chosen[1] \in Unpublished(SeenTags)
        /\ \A r \in Unpublished(SeenTags) : StrLeq(last.chosen[1].date, r.date)

\* records of 2025-11-10 and 2025-11-20, none published: 2025-11-10 is chosen
C3_Witness ==
    /\ SelectorRan /\ SeenTags = {}
    /\ {r.date : r \in RecordsOf(manifest)} = {Date10, Date20}
    /\ last.chosen # <<>> /\ last.chosen[1].date = Date10

\* C4 as claimed: the dates of the successive releases never decrease.
C4_ReleasedChronologically ==
    \A i, j \in 1..Len(pubLog) :
        i < j => StrLeq(pubLog[i].date, pubLog[j].date)

\* C4: a release is never older-dated than an earlier release whose record was
\* already in the manifest when that earlier one was released: among the records
\* known at the time, the oldest unpublished goes first.
C4_OldestKnownFirst ==
    \A i, j \in 1..Len(pubLog) :
        (i < j /\ pubLog[j].version \in pubLog[i].known)
            => StrLeq(pubLog[i].date, pubLog[j].date)

\* two releases of records that were both known at the first, the older one first
C4_Witness ==
    /\ Len(pubLog) = 2
    /\ pubLog[2].version \in pubLog[1].known
    /\ StrLess(pubLog[1].date, pubLog[2].date)

\* C5: when every record of the manifest is published, the Selector ends with
\* status 0, raises nothing, tests no mirror and writes no output.
C5_NothingToDo ==
    (SelectorRan /\ Unpublished(SeenTags) = {}) =>
        /\ last.exit = 0 /\ ~last.raised
        /\ last.chosen = <<>> /\ last.url = <<>>
        /\ last.probes = 0 /\ ~last.output

\* a run on a manifest of two records, both released
C5_Witness ==
    /\ SelectorRan /\ last.listed
    /\ Len(manifest.versions) = 2 /\ Unpublished(SeenTags) = {}
    /\ last.exit = 0

\* C6 as claimed: once the Selector has chosen a record it ends normally with a
\* URL of that record's urls list.
C6_AlwaysUsableUrl ==
    (SelectorRan /\ last.chosen # <<>>) =>
        /\ last.exit = 0 /\ ~last.raised
        /\ last.url \in Range(last.chosen[1].urls)
        /\ last.output

\* C7: an MD5 Updater run whose VERSION is not in the manifest, or whose manifest
\* is missing, ends with a nonzero status and does not write the file.
C7_MissingVersionFails ==
    [][(/\ last'.tool = "md5"
        /\ \/ ~manifest.exists
           \/ last'.version \notin Range(VersionsOf(manifest)))
       => (/\ last'.exit # 0
           /\ ~last'.wrote
           /\ manifest' = manifest)]_vars

\* REGION, VERSION and MD5 set, a manifest with records, none of that version
C7_Witness ==
    /\ last.tool = "md5" /\ last.region = Region /\ last.md5 # ""
    /\ last.version \in Versions
    /\ manifest.exists /\ Len(manifest.versions) > 0
    /\ last.version \notin Range(VersionsOf(manifest))
    /\ last.exit = 1

\* C8: no step deletes a record or changes a field of one, except that an MD5
\* Updater run that succeeds sets md5 of the record of its VERSION, and of no other.
C8_RecordsFramed ==
    [][\A r \in RecordsOf(manifest) :
         \E r2 \in RecordsOf(manifest') :
            /\ r2.version = r.version
            /\ [r2 EXCEPT !.md5 = r.md5] = r
            /\ r2.md5 # r.md5 =>
                  /\ last'.tool = "md5" /\ last'.exit = 0
                  /\ last'.version = r.version
                  /\ r2.md5 = last'.md5]_vars

\* a successful MD5 run on a manifest of two records: the other one keeps md5 ""
C8_Witness ==
    /\ last.tool = "md5" /\ last.exit = 0 /\ last.wrote
    /\ Len(manifest.versions) = 2
    /\ \E r \in RecordsOf(manifest) : r.version = last.version /\ r.md5 = last.md5
    /\ \E r \in RecordsOf(manifest) : r.version # last.version /\ r.md5 = ""

\* the rows of two releases that parse to the same version and region
SamePair(a, b) == parse_tag(a.tagName) # <<>> /\ parse_tag(a.tagName) = parse_tag(b.tagName)

\* the form v<version>-<region>: a v, then a hyphen with text on both sides
HasTagForm(tag) ==
    /\ Len(tag) >= 4 /\ tag[1] = "v"
    /\ \E h \in 3..(Len(tag) - 1) : tag[h] = "-"

\* C9: the index holds at most one row per tag and per (version, region); releases
\* with the same tag, or with the same parsed (version, region), give exactly one
\* row, that of the first of them in list order; a tag that is not of the form
\* v<version>-<region> gives no row.
C9_OneRowPerRelease ==
    ix.pc = "indexed" =>
        /\ \A i, j \in 1..Len(ix.rows) :
              (\/ ix.rows[i].tag = ix.rows[j].tag
               \/ /\ ix.rows[i].version = ix.rows[j].version
                  /\ ix.rows[i].region = ix.rows[j].region) => i = j
        /\ \A k \in 1..Len(ix.releases) :
              parse_tag(ix.releases[k].tagName) # <<>> =>
                 LET first == CHOOSE f \in 1..k :
                                 /\ SamePair(ix.releases[f], ix.releases[k])
                                 /\ \A g \in 1..(f - 1) :
                                       ~SamePair(ix.releases[g], ix.releases[k])
                     mine == {i \in 1..Len(ix.rows) :
                                 <<ix.rows[i].version, ix.rows[i].region>>
                                     = parse_tag(ix.releases[k].tagName)}
                 IN  /\ Cardinality(mine) = 1
                     /\ \A i \in mine :
                           /\ ix.rows[i].tag = ix.releases[first].tagName
                           /\ ix.rows[i].name = ix.releases[first].name
        /\ \A i \in 1..Len(ix.rows) :
              /\ HasTagForm(ix.rows[i].tag)
              /\ \E k \in 1..Len(ix.releases) : ix.releases[k].tagName = ix.rows[i].tag

\* two releases under different tags with the same version and region: one row
C9_Witness ==
    /\ ix.pc = "indexed" /\ Len(ix.releases) = 2
    /\ ix.releases[1].tagName # ix.releases[2].tagName
    /\ SamePair(ix.releases[1], ix.releases[2])
    /\ Len(ix.rows) = 1 /\ ix.rows[1].name = ix.releases[1].name

Count(doc, piece) == Cardinality({i \in 1..Len(doc) : doc[i] = piece})

\* C10 as claimed, for a document that holds each marker and the heading at most
\* once: with both markers the text from the start marker to the end marker is
\* replaced by the marked block; else with the heading the marked block is put
\* just before it; else it is appended; nothing else changes.
C10_ReplaceInsertAppend ==
    (/\ ix.pc = "written"
     /\ Count(ix.readme, MarkerStart) <= 1
     /\ Count(ix.readme, MarkerEnd) <= 1
     /\ Count(ix.readme, AboutHeading) <= 1) =>
        LET old == ix.readme
            block == <<MarkerStart, LF>> \o ix.index_content \o <<MarkerEnd>>
        IN  IF Contains(old, MarkerStart) /\ Contains(old, MarkerEnd)
            THEN \E a, b \in 1..Len(old) :
                    /\ old[a] = MarkerStart /\ old[b] = MarkerEnd
                    /\ ix.written = SubSeq(old, 1, a - 1) \o block
                                        \o SubSeq(old, b + 1, Len(old))
            ELSE IF \E k \in 1..Len(old) : OccursAt(old, <<LF, AboutHeading>>, k)
            THEN \E k \in 1..Len(old) :
                    /\ OccursAt(old, <<LF, AboutHeading>>, k)
                    /\ ix.written = SubSeq(old, 1, k - 1) \o <<LF>> \o block
                                        \o <<LF>> \o SubSeq(old, k, Len(old))
            ELSE ix.written = old \o <<LF, LF>> \o block \o <<LF>>

\* the release listing yields zero releases: an empty list, no output, or the
\* failure that says there are none
ZeroReleases(result) ==
    \/ result.returncode = 0 /\ (result.blank \/ result.releases = <<>>)
    \/ result.returncode # 0 /\ result.stderr = "no releases found"

\* C11: when the release listing yields zero releases, the Index Publisher's
\* main returns without raising and does not write README.md.
C11_ZeroReleasesNoWrite ==
    (ix.pc \in {"returned", "raised"} /\ ZeroReleases(ix.gh[1])) =>
        ix.pc = "returned" /\ ~ix.wrote

\* main has returned on the 'no releases found' failure, README.md holding text
C11_Witness ==
    /\ ix.pc = "returned" /\ ~ix.wrote
    /\ ix.gh[1].returncode # 0 /\ ix.gh[1].stderr = "no releases found"
    /\ ix.readme # <<>>

\* C12 as claimed: a filename made from (version, region, date, android) parses
\* back to the same four fields, the date put back in the form YYYY-MM-DD.
C12_FilenameRoundTrip ==
    fx.pc = "parsed" =>
        /\ fx.parsed # <<>>
        /\ fx.parsed[1].version = fx.version
        /\ fx.parsed[1].region = WordsOf(fx.region)
        /\ formatted_date(fx.parsed[1].date) = fx.date
        /\ fx.parsed[1].android = fx.android

\* a record the editor has completed from what was typed
Completed(r, typed) ==
    /\ r.version = typed.version /\ r.version # <<>>
    /\ r.date = typed.date /\ r.android_version = typed.android_version
    /\ r.hyperos_version = typed.hyperos_version /\ r.md5 = ""

\* what a step of the editor may do to the session's list and to the file
SessionStep ==
    /\ (ed.pc = "idle" /\ ed'.pc # "idle") =>
          /\ ed'.manifest.versions = manifest.versions
          /\ manifest' = manifest
    /\ (ed.pc # "idle" /\ ed'.pc # "idle") =>
          /\ manifest' = manifest
          /\ IF ed.pc \in {"custom", "url"} /\ ed'.pc = "more"
             THEN /\ Len(ed'.manifest.versions) = Len(ed.manifest.versions) + 1
                  /\ SubSeq(ed'.manifest.versions, 1, Len(ed.manifest.versions))
                        = ed.manifest.versions
                  /\ Completed(ed'.manifest.versions[Len(ed'.manifest.versions)],
                               ed.version_info)
                  /\ \A i \in 1..Len(ed.manifest.versions) :
                        ed.manifest.versions[i].version # ed.version_info.version
             ELSE ed'.manifest.versions = ed.manifest.versions
          /\ ed'.rejected => ed.pc = "version" /\ ed'.pc = "version"
    /\ (ed.pc # "idle" /\ ed'.pc = "idle") =>
          /\ manifest'.exists /\ last'.wrote
          /\ Len(manifest'.versions) = Len(ed.manifest.versions)
          /\ RecordsOf(manifest') = Range(ed.manifest.versions)
          /\ \A i \in 1..Len(manifest.versions) :
                manifest.versions[i] \in RecordsOf(manifest')
    /\ ed.pc # "idle" =>
          SubSeq(ed.manifest.versions, 1, Len(manifest.versions))
              = manifest.versions

\* C13: a session of the editor keeps the records loaded at its start, appends a
\* record exactly when its entry is completed, never one whose version is already
\* listed (that answer is rejected and the version asked again) nor one entered
\* part-way, and when it ends it saves exactly the records it then holds; and
\* every session ends.
C13_SessionSaved ==
    /\ [][SessionStep]_vars
    /\ (ed.pc # "idle") ~> (ed.pc = "idle")

\* a session has ended by an interruption part-way through a record: the file
\* is saved and holds one record, completed by the editor, and not the other
C13_Witness ==
    /\ last.tool = "editor" /\ last.partial /\ last.wrote
    /\ manifest.exists /\ Len(manifest.versions) = 1
    /\ manifest.versions[1].urls
          = generate_mirror_urls(
                manifest.versions[1].version,
                auto_generate_filename(manifest.versions[1].version, Region,
                                       manifest.versions[1].date,
                                       manifest.versions[1].android_version))

\* C14: with more than one URL every URL is probed once, in list order; a probe
\* that fails scores zero and the probes go on; if some score is above zero the
\* URL selected has the highest score, the earliest in the list among equals.
\* With one URL no probe is made and that URL is selected.
C14_FastestMirror ==
    ms.pc = "selected" =>
        /\ ~ms.raised
        /\ IF Len(ms.urls) = 1
           THEN ms.mirror_speeds = <<>> /\ ms.url = ms.urls[1]
           ELSE
             /\ Len(ms.mirror_speeds) = Len(ms.urls)
             /\ \A i \in 1..Len(ms.urls) :
                   /\ ms.mirror_speeds[i].url = ms.urls[i]
                   /\ ms.mirror_speeds[i].speed =
                         IF ms.results[i].ok THEN ms.results[i].speed ELSE 0
             /\ (\E i \in 1..Len(ms.urls) : ms.mirror_speeds[i].speed > 0) =>
                   \E i \in 1..Len(ms.urls) :
                      /\ ms.url = ms.urls[i]
                      /\ \A j \in 1..Len(ms.urls) :
                            ms.mirror_speeds[j].speed <= ms.mirror_speeds[i].speed
                      /\ \A j \in 1..(i - 1) :
                            ms.mirror_speeds[j].speed < ms.mirror_speeds[i].speed

\* the first probe failed, the second and the third gave the same highest speed:
\* the second URL is selected
C14_Witness ==
    /\ ms.pc = "selected" /\ Len(ms.urls) = 3
    /\ ~ms.results[1].ok
    /\ ms.results[2].ok /\ ms.results[2].speed = 2
    /\ ms.results[3].ok /\ ms.results[3].speed = 2
    /\ ms.url = ms.urls[2]

\* ordered by date, newest first
SortedDesc(versions) ==
    \A i, j \in 1..Len(versions) :
        i < j => ~StrLess(versions[i].date, versions[j].date)

\* C15 as claimed: after any of Firmware Discovery, the Manual Manifest Editor and
\* the MD5 Updater has written the manifest, its versions are ordered by date
\* descending, whatever the order of the list that was loaded.
C15_SortedAfterEveryWrite ==
    [][last'.wrote => SortedDesc(manifest'.versions)]_vars

\* C15, amended: a write by Firmware Discovery or by the Manual Manifest Editor
\* leaves the versions ordered by date descending whatever the order loaded; a
\* write by the MD5 Updater leaves every record at the place it was loaded at,
\* so the list it writes is ordered exactly when the list it loaded was.
C15_SortedByDiscoveryAndEditor ==
    [][last'.wrote =>
          IF last'.tool = "md5"
          THEN /\ Len(manifest'.versions) = Len(manifest.versions)
               /\ \A i \in 1..Len(manifest.versions) :
                     /\ manifest'.versions[i].version = manifest.versions[i].version
                     /\ manifest'.versions[i].date = manifest.versions[i].date
               /\ SortedDesc(manifest'.versions) <=> SortedDesc(manifest.versions)
          ELSE SortedDesc(manifest'.versions)]_vars

\* the MD5 Updater has written a list that is not ordered by date descending
C15_Witness ==
    /\ last.tool = "md5" /\ last.wrote
    /\ ~SortedDesc(manifest.versions)

\* a tag without the line feed that may end it
Stem(tag) ==
    IF tag # <<>> /\ tag[Len(tag)] = LF THEN SubSeq(tag, 1, Len(tag) - 1) ELSE tag

\* the hyphens of a tag that have text on both sides, the leading v not counted
InnerHyphens(tag) == {h \in 3..(Len(Stem(tag)) - 1) : Stem(tag)[h] = "-"}

\* of the form v<version>-<region>
OfTagForm(tag) ==
    /\ Stem(tag) # <<>> /\ Stem(tag)[1] = "v"
    /\ \A i \in 1..Len(Stem(tag)) : Stem(tag)[i] # LF
    /\ InnerHyphens(tag) # {}

\* a release whose tag is of the form has a row for that tag (with or without
\* the line feed), any other release has none
NoRowForOtherTags ==
    \A k \in 1..Len(ix.releases) :
        IF OfTagForm(ix.releases[k].tagName)
        THEN \E i \in 1..Len(ix.rows) :
                Stem(ix.rows[i].tag) = Stem(ix.releases[k].tagName)
        ELSE \A i \in 1..Len(ix.rows) : ix.rows[i].tag # ix.releases[k].tagName

=============================================================================
